---- MODULE Spec2Model ----
(***************************************************************************)
(* The peer coordination and task-distribution engine of the ghost network *)
(* (class GhostDistributed) together with the part of GhostClient that     *)
(* feeds it: the peer list kept from the signaling relay and the set of    *)
(* open data channels.  One local node is modelled; the relay and the      *)
(* remote peers are the environment.                                       *)
(***************************************************************************)
EXTENDS Integers, Sequences, FiniteSets, TLC

(***************************************************************************)
(* Bounds and input domains                                                *)
(***************************************************************************)
\* samples kept per peer before the model stops feeding latency-pongs
MaxSamples == 1
\* cap on the failedTasks counter
MaxFailedTasks == 1
\* cap on the tasksDistributed counter
MaxTasksDistributed == 1

SelfId == "self"
RemoteIds == {"p1", "p2"}
PeerIds == RemoteIds \cup {SelfId}
\* null of the source (masterPeerId, metrics.masterDevice)
NoPeer == "null"

\* round-trip times a latency-pong can yield (performance.now() difference)
Latencies == {0, 100}
\* the one sample value the task scenarios need: it moves a peer off the
\* bootstrap latency
TaskLatencies == {100}
TaskIds == {"t1"}
TaskTypes == {"render", "physics", "audio", "texture", "input"}
Roles == {"master", "compute", "storage", "display"}

(***************************************************************************)
(* Capability profiles (PeerCapabilities)                                  *)
(***************************************************************************)
Caps(gpu, wasm, mem, bw, render, compute, store) ==
    [hasGPU |-> gpu, hasWASM |-> wasm, maxMemory |-> mem, bandwidth |-> bw,
     canRender |-> render, canCompute |-> compute, canStore |-> store]

\* what detectCapabilities yields in a browser with WebGL, WebAssembly and
\* IndexedDB, no navigator.deviceMemory and no navigator.connection
MyCapabilities == Caps(TRUE, TRUE, 4096, 100, TRUE, TRUE, TRUE)

GpuFull == Caps(TRUE, TRUE, 4096, 100, TRUE, TRUE, TRUE)
GpuLean == Caps(TRUE, FALSE, 0, 0, TRUE, FALSE, TRUE)
CpuFull == Caps(FALSE, TRUE, 10240, 100, TRUE, TRUE, FALSE)
Bare    == Caps(FALSE, FALSE, 0, 0, FALSE, FALSE, FALSE)
\* a peer-list entry that carries no capabilities field
NoCapabilities == [missing |-> TRUE]

Profiles == {GpuFull, GpuLean, CpuFull, Bare}

(***************************************************************************)
(* Scoring and role suggestion                                             *)
(***************************************************************************)
Min(a, b) == IF a <= b THEN a ELSE b
Max(a, b) == IF a >= b THEN a ELSE b

\* Math.round: nearest integer, halves rounded up; num/den with den > 0
MathRound(num, den) == (2 * num + den) \div (2 * den)

\* common denominator of maxMemory/1024, bandwidth/10 and latency/10
ScoreScale == 1024 * 10

\* variant of calculateDeviceScore: the latency penalty is not capped
calculateDeviceScore_UncappedPenalty(capabilities, latency) ==
    LET base == (IF capabilities.hasGPU THEN 40 ELSE 0)
              + (IF capabilities.hasWASM THEN 20 ELSE 0)
              + (IF capabilities.canRender THEN 20 ELSE 0)
              + (IF capabilities.canCompute THEN 10 ELSE 0)
        mem  == Min(capabilities.maxMemory * 10, 10 * ScoreScale)
        bw   == Min(capabilities.bandwidth * 1024, 10 * ScoreScale)
        pen  == latency * 1024
    IN  Max(0, MathRound(base * ScoreScale + mem + bw - pen, ScoreScale))

calculateDeviceScore(capabilities, latency) ==
    LET base == (IF capabilities.hasGPU THEN 40 ELSE 0)
              + (IF capabilities.hasWASM THEN 20 ELSE 0)
              + (IF capabilities.canRender THEN 20 ELSE 0)
              + (IF capabilities.canCompute THEN 10 ELSE 0)
        mem  == Min(capabilities.maxMemory * 10, 10 * ScoreScale)
        bw   == Min(capabilities.bandwidth * 1024, 10 * ScoreScale)
        pen  == Min(latency * 1024, 20 * ScoreScale)
    IN  Max(0, MathRound(base * ScoreScale + mem + bw - pen, ScoreScale))

\* variant of suggestRole: master needs a score above 70
suggestRole_Above70(capabilities, score) ==
    IF score > 70 /\ capabilities.hasGPU /\ capabilities.canRender THEN "master"
    ELSE IF score >= 50 /\ capabilities.hasWASM /\ capabilities.canCompute THEN "compute"
    ELSE IF score >= 30 /\ capabilities.canStore THEN "storage"
    ELSE "display"

suggestRole(capabilities, score) ==
    IF score >= 70 /\ capabilities.hasGPU /\ capabilities.canRender THEN "master"
    ELSE IF score >= 50 /\ capabilities.hasWASM /\ capabilities.canCompute THEN "compute"
    ELSE IF score >= 30 /\ capabilities.canStore THEN "storage"
    ELSE "display"

(***************************************************************************)
(* State                                                                   *)
(***************************************************************************)
VARIABLES
    remoteCaps,      \* the capabilities each remote peer's list entry carries
    isConnected,     \* GhostClient.isConnected
    connectedPeers,  \* GhostClient.connectedPeers, ids in list order
    dataChannels,    \* GhostClient.dataChannels, ids with an open channel
    myRole,          \* GhostDistributed.myRole
    masterPeerId,    \* GhostDistributed.masterPeerId
    deviceScores,    \* GhostDistributed.deviceScores, in Map insertion order
    latencyTests,    \* GhostDistributed.latencyTests
    pendingTasks,    \* GhostDistributed.pendingTasks, one task per id
    completedTasks,  \* GhostDistributed.completedTasks, one entry per id
    isRunning,       \* GhostDistributed.isRunning
    metrics,         \* GhostDistributed.metrics
    lastHandler,     \* the handler or method that ran last
    lastFrom,        \* the peer the last handler was about
    lastTask,        \* the task id the last handler was about
    returned,        \* what the last call returned (distributeTask)
    threw,           \* the last handler ended in an exception
    emitted,         \* the events the last handler emitted, in order
    sent,            \* the sendToPeer calls of the last handler, in order
    sameDirElections, \* elections run in a row on the same directory (0..2)
    wire             \* the data channels' far side: messages in flight and the
                     \* remote peers' timers, for the message types in wire.tracked

clientVars == <<isConnected, connectedPeers, dataChannels>>
taskVars   == <<pendingTasks, completedTasks, isRunning>>
traceVars  == <<lastHandler, lastFrom, lastTask, returned, threw, emitted, sent>>
vars == <<remoteCaps, isConnected, connectedPeers, dataChannels, myRole,
          masterPeerId, deviceScores, latencyTests, pendingTasks,
          completedTasks, isRunning, metrics, lastHandler, lastFrom,
          lastTask, returned, threw, emitted, sent, sameDirElections, wire>>

HasCapabilities(c) == "missing" \notin DOMAIN c

\* an emitted event; fields an event does not carry hold "-", FALSE or 0
\* the result an assignee reports: {processed: true, deviceId}
Result(deviceId) == [processed |-> TRUE, deviceId |-> deviceId]
\* no result: the field is undefined
NoResult == [processed |-> FALSE, deviceId |-> "-"]

Event(name, peer, role, isMaster, latency) ==
    [name |-> name, peer |-> peer, role |-> role, isMaster |-> isMaster,
     latency |-> latency, taskId |-> "-", result |-> NoResult]
SimpleEvent(name) == Event(name, "-", "-", FALSE, 0)
\* the payload {taskId, result, from} of task-completed
TaskEvent(name, taskId, result, from) ==
    [Event(name, from, "-", FALSE, 0) EXCEPT !.taskId = taskId, !.result = result]


EventNames(evs) == {evs[i].name : i \in DOMAIN evs}

(***************************************************************************)
(* The peer directory (deviceScores)                                       *)
(***************************************************************************)
DirIds(ds) == {ds[i].peerId : i \in DOMAIN ds}
Has(ds, id) == id \in DirIds(ds)
IndexOf(ds, id) == CHOOSE i \in DOMAIN ds : ds[i].peerId = id
Get(ds, id) == ds[IndexOf(ds, id)]

\* Map.set: an existing key keeps its place, a new key goes last
MapSet(ds, rec) ==
    IF Has(ds, rec.peerId)
    THEN [ds EXCEPT ![IndexOf(ds, rec.peerId)] = rec]
    ELSE Append(ds, rec)

DeviceScore(id, capabilities, latency) ==
    LET score == calculateDeviceScore(capabilities, latency)
    IN  [peerId |-> id, score |-> score, capabilities |-> capabilities,
         suggestedRole |-> suggestRole(capabilities, score),
         latency |-> latency]

BootstrapLatency == 50

\* latencyTests.get(peer.id)?.[0] || 50
InitialLatency(lt, id) ==
    IF Len(lt[id]) > 0 /\ lt[id][1] # 0 THEN lt[id][1] ELSE BootstrapLatency

\* the for loop of updateDeviceScores over peers[i..]; it stops where a
\* new peer has no capabilities (calculateDeviceScore reads
\* capabilities.hasGPU of undefined and throws a TypeError)
RECURSIVE InsertPeers(_, _, _, _, _)
InsertPeers(ds, peers, i, caps, lt) ==
    IF i > Len(peers) THEN [dir |-> ds, threw |-> FALSE]
    ELSE LET id == peers[i]
         IN  IF Has(ds, id) THEN InsertPeers(ds, peers, i + 1, caps, lt)
             ELSE IF ~HasCapabilities(caps[id]) THEN [dir |-> ds, threw |-> TRUE]
             ELSE InsertPeers(
                      Append(ds, DeviceScore(id, caps[id], InitialLatency(lt, id))),
                      peers, i + 1, caps, lt)

(***************************************************************************)
(* Master election                                                         *)
(***************************************************************************)
\* variant of ElectScan: >= for >, so that the last of several equal
\* scores wins
RECURSIVE ElectScan_LastWins(_, _, _, _, _)
ElectScan_LastWins(ds, i, bestScore, bestPeerId, mastersOnly) ==
    IF i > Len(ds) THEN [score |-> bestScore, peer |-> bestPeerId]
    ELSE IF ds[i].score >= bestScore
            /\ (mastersOnly => ds[i].suggestedRole = "master")
         THEN ElectScan_LastWins(ds, i + 1, ds[i].score, ds[i].peerId, mastersOnly)
         ELSE ElectScan_LastWins(ds, i + 1, bestScore, bestPeerId, mastersOnly)

\* one for loop of electMaster over ds[i..]; mastersOnly is the first loop
RECURSIVE ElectScan(_, _, _, _, _)
ElectScan(ds, i, bestScore, bestPeerId, mastersOnly) ==
    IF i > Len(ds) THEN [score |-> bestScore, peer |-> bestPeerId]
    ELSE IF ds[i].score > bestScore
            /\ (mastersOnly => ds[i].suggestedRole = "master")
         THEN ElectScan(ds, i + 1, ds[i].score, ds[i].peerId, mastersOnly)
         ELSE ElectScan(ds, i + 1, bestScore, bestPeerId, mastersOnly)

\* bestPeerId after both loops
ElectionWinner(ds) ==
    LET first == ElectScan(ds, 1, -1, NoPeer, TRUE)
    IN  IF first.peer = NoPeer
        THEN ElectScan(ds, 1, first.score, NoPeer, FALSE).peer
        ELSE first.peer

\* variant of electMaster: metrics.masterDevice is written by the first
\* election only
electMaster_StaleMetrics(ds, master, masterDevice, role) ==
    LET bestPeerId == ElectionWinner(ds)
    IN  IF bestPeerId # NoPeer /\ bestPeerId # master
        THEN LET newRole == IF bestPeerId = SelfId THEN "master"
                            ELSE IF Has(ds, SelfId)
                                 THEN Get(ds, SelfId).suggestedRole
                                 ELSE "display"
             IN  [masterPeerId |-> bestPeerId,
                  masterDevice |-> IF masterDevice = NoPeer THEN bestPeerId
                                   ELSE masterDevice,
                  myRole |-> newRole,
                  emitted |-> <<Event("role-changed", "-", newRole,
                                      bestPeerId = SelfId, 0),
                                Event("master-elected", bestPeerId, "-",
                                      FALSE, 0)>>]
        ELSE [masterPeerId |-> master, masterDevice |-> masterDevice,
              myRole |-> role, emitted |-> <<>>]

\* variant of electMaster: the test bestPeerId !== this.masterPeerId is
\* gone, every election with a winner notifies
electMaster_AlwaysNotify(ds, master, masterDevice, role) ==
    LET bestPeerId == ElectionWinner(ds)
    IN  IF bestPeerId # NoPeer
        THEN LET newRole == IF bestPeerId = SelfId THEN "master"
                            ELSE IF Has(ds, SelfId)
                                 THEN Get(ds, SelfId).suggestedRole
                                 ELSE "display"
             IN  [masterPeerId |-> bestPeerId,
                  masterDevice |-> bestPeerId,
                  myRole |-> newRole,
                  emitted |-> <<Event("role-changed", "-", newRole,
                                      bestPeerId = SelfId, 0),
                                Event("master-elected", bestPeerId, "-",
                                      FALSE, 0)>>]
        ELSE [masterPeerId |-> master, masterDevice |-> masterDevice,
              myRole |-> role, emitted |-> <<>>]

\* variant of electMaster: when another peer wins, myRole is left as it
\* was
electMaster_RoleKept(ds, master, masterDevice, role) ==
    LET bestPeerId == ElectionWinner(ds)
    IN  IF bestPeerId # NoPeer /\ bestPeerId # master
        THEN LET newRole == IF bestPeerId = SelfId THEN "master" ELSE role
             IN  [masterPeerId |-> bestPeerId,
                  masterDevice |-> bestPeerId,
                  myRole |-> newRole,
                  emitted |-> <<Event("role-changed", "-", newRole,
                                      bestPeerId = SelfId, 0),
                                Event("master-elected", bestPeerId, "-",
                                      FALSE, 0)>>]
        ELSE [masterPeerId |-> master, masterDevice |-> masterDevice,
              myRole |-> role, emitted |-> <<>>]

\* electMaster: the new masterPeerId, metrics.masterDevice, myRole and the
\* events emitted
electMaster(ds, master, masterDevice, role) ==
    LET bestPeerId == ElectionWinner(ds)
    IN  IF bestPeerId # NoPeer /\ bestPeerId # master
        THEN LET newRole == IF bestPeerId = SelfId THEN "master"
                            ELSE IF Has(ds, SelfId)
                                 THEN Get(ds, SelfId).suggestedRole
                                 ELSE "display"
             IN  [masterPeerId |-> bestPeerId,
                  masterDevice |-> bestPeerId,
                  myRole |-> newRole,
                  emitted |-> <<Event("role-changed", "-", newRole,
                                      bestPeerId = SelfId, 0),
                                Event("master-elected", bestPeerId, "-",
                                      FALSE, 0)>>]
        ELSE [masterPeerId |-> master, masterDevice |-> masterDevice,
              myRole |-> role, emitted |-> <<>>]

(***************************************************************************)
(* Task target selection                                                   *)
(***************************************************************************)
\* variant of Suitability5: the render bonus is never added
Suitability5_NoRenderBonus(device, taskType) ==
    LET bonus ==
          IF taskType \in {"physics", "compute"}
          THEN (IF device.capabilities.hasWASM /\ device.capabilities.canCompute
                THEN 20 ELSE 0)
          ELSE IF taskType \in {"texture", "storage"}
          THEN (IF device.capabilities.canStore THEN 15 ELSE 0)
          ELSE 0
    IN  5 * (device.score + bonus) - device.latency

\* five times the suitability of findBestDeviceForTask, to stay in the
\* integers: (score + affinity bonus - latency / 5) * 5
Suitability5(device, taskType) ==
    LET bonus ==
          IF taskType = "render"
          THEN (IF device.capabilities.hasGPU /\ device.capabilities.canRender
                THEN 30 ELSE 0)
          ELSE IF taskType \in {"physics", "compute"}
          THEN (IF device.capabilities.hasWASM /\ device.capabilities.canCompute
                THEN 20 ELSE 0)
          ELSE IF taskType \in {"texture", "storage"}
          THEN (IF device.capabilities.canStore THEN 15 ELSE 0)
          ELSE 0
    IN  5 * (device.score + bonus) - device.latency

\* variant of BestScan: the local node is not skipped
RECURSIVE BestScan_WithSelf(_, _, _, _, _)
BestScan_WithSelf(ds, i, best, bestScore5, taskType) ==
    IF i > Len(ds) THEN best
    ELSE IF Suitability5(ds[i], taskType) > bestScore5
         THEN BestScan_WithSelf(ds, i + 1, i, Suitability5(ds[i], taskType), taskType)
         ELSE BestScan_WithSelf(ds, i + 1, best, bestScore5, taskType)

\* the for loop of findBestDeviceForTask over ds[i..]; best is the index
\* of bestDevice (0 for null), bestScore5 is five times bestScore
RECURSIVE BestScan(_, _, _, _, _)
BestScan(ds, i, best, bestScore5, taskType) ==
    IF i > Len(ds) THEN best
    ELSE IF ds[i].peerId = SelfId
         THEN BestScan(ds, i + 1, best, bestScore5, taskType)
         ELSE IF Suitability5(ds[i], taskType) > bestScore5
              THEN BestScan(ds, i + 1, i, Suitability5(ds[i], taskType), taskType)
              ELSE BestScan(ds, i + 1, best, bestScore5, taskType)

\* variant of findBestDeviceForTask: the loop that does not skip the local
\* node
findBestDeviceForTask_WithSelf(ds, taskType) ==
    BestScan_WithSelf(ds, 1, 0, -5, taskType)

\* index in ds of the device returned, 0 when it returns null
findBestDeviceForTask(ds, taskType) == BestScan(ds, 1, 0, -5, taskType)

(***************************************************************************)
(* Metrics                                                                 *)
(***************************************************************************)
RECURSIVE SumLast(_, _)
SumLast(lt, ids) ==
    IF ids = {} THEN 0
    ELSE LET id == CHOOSE x \in ids : TRUE
         IN  lt[id][Len(lt[id])] + SumLast(lt, ids \ {id})

\* variant of updateAverageLatency: the mean of the peers' first samples
updateAverageLatency_FirstSample(lt) ==
    LET sampled == {id \in DOMAIN lt : Len(lt[id]) > 0}
        first == [id \in DOMAIN lt |-> IF Len(lt[id]) > 0 THEN <<lt[id][1]>> ELSE <<>>]
    IN  [total |-> SumLast(first, sampled), count |-> Cardinality(sampled)]

\* updateAverageLatency: avgLatency is total / count, kept as the pair
\* (count 0 stands for the value 0)
updateAverageLatency(lt) ==
    LET sampled == {id \in DOMAIN lt : Len(lt[id]) > 0}
    IN  [total |-> SumLast(lt, sampled), count |-> Cardinality(sampled)]

(***************************************************************************)
(* Initial state: a constructed GhostClient and GhostDistributed           *)
(***************************************************************************)
InitWith(capabilityChoices, tracked) ==
    /\ remoteCaps \in capabilityChoices
    /\ wire = [tracked |-> tracked, msgs |-> {}, timers |-> {}, pinged |-> {},
               assigned |-> {}, now |-> 0]
    /\ isConnected = FALSE
    /\ connectedPeers = <<>>
    /\ dataChannels = {}
    /\ myRole = "display"
    /\ masterPeerId = NoPeer
    /\ deviceScores = <<>>
    /\ latencyTests = [id \in RemoteIds |-> <<>>]
    /\ pendingTasks = {}
    /\ completedTasks = {}
    /\ isRunning = FALSE
    /\ metrics = [totalDevices |-> 0, masterDevice |-> NoPeer,
                  avgLatency |-> [total |-> 0, count |-> 0],
                  totalBandwidth |-> 0, framesProcessed |-> 0,
                  tasksDistributed |-> 0, failedTasks |-> 0]
    /\ lastHandler = "constructor"
    /\ lastFrom = "-"
    /\ lastTask = "-"
    /\ returned = FALSE
    /\ threw = FALSE
    /\ emitted = <<>>
    /\ sent = <<>>
    /\ sameDirElections = 0

\* the far side of the channels is left out of sight
InitState(capabilityChoices) == InitWith(capabilityChoices, {})

\* a message on a data channel, as JSON.stringify writes it; fields a
\* message does not carry hold "-", NoResult or 0
Wire(from, to, type, taskId, result, timestamp) ==
    [from |-> from, to |-> to, type |-> type, taskId |-> taskId,
     result |-> result, timestamp |-> timestamp]

\* the sendToPeer calls of the local node that found an open channel
OnWire(msgs) ==
    {Wire(SelfId, msgs[i].to, msgs[i].type, msgs[i].taskId, NoResult,
             msgs[i].timestamp) :
        i \in {j \in DOMAIN msgs : msgs[j].onChannel}}

\* the peer each task id was last dispatched to, after the sendToPeer
\* calls msgs
Assigned(assigned, msgs) ==
    LET tasks == {i \in DOMAIN msgs : msgs[i].type = "task-assign"}
    IN  {a \in assigned : \A i \in tasks : msgs[i].taskId # a.taskId}
            \cup {[taskId |-> msgs[i].taskId, peer |-> msgs[i].to] : i \in tasks}

\* what the last handler did, as seen from outside
Observed(handler, from, task, ret, thr, evs, msgs) ==
    /\ lastHandler' = handler
    /\ lastFrom' = from
    /\ lastTask' = task
    /\ returned' = ret
    /\ threw' = thr
    /\ emitted' = evs
    /\ sent' = msgs

\* a handler run on the messages `received`: what it did, and the wire
\* without what it took and with what it sent
Received(received, handler, from, task, ret, thr, evs, msgs) ==
    /\ Observed(handler, from, task, ret, thr, evs, msgs)
    /\ wire' = IF wire.tracked # {}
               THEN [wire EXCEPT
                        !.msgs = (@ \ received)
                                   \cup {m \in OnWire(msgs) : m.type \in wire.tracked},
                        !.assigned = Assigned(@, msgs)]
               ELSE wire

TaskTrace(handler, from, task, ret, thr, evs, msgs) ==
    Received({}, handler, from, task, ret, thr, evs, msgs)

Trace(handler, from, ret, thr, evs, msgs) ==
    TaskTrace(handler, from, "-", ret, thr, evs, msgs)

\* a sendToPeer call; onChannel tells whether an open channel carried it
Message(to, type, taskId, taskType) ==
    [to |-> to, type |-> type, taskId |-> taskId, taskType |-> taskType,
     timestamp |-> 0, onChannel |-> to \in dataChannels]

\* the directory changed without an election, or stayed as it was
NoElection ==
    sameDirElections' = IF deviceScores' = deviceScores THEN sameDirElections ELSE 0

(***************************************************************************)
(* GhostClient: connection, peer list, data channels                       *)
(***************************************************************************)
\* ws.onopen of GhostClient.connect, as called by App's autoConnect
Connect ==
    /\ ~isConnected
    /\ isConnected' = TRUE
    /\ UNCHANGED <<remoteCaps, connectedPeers, dataChannels, myRole,
                   masterPeerId, deviceScores, latencyTests, taskVars,
                   metrics, sameDirElections>>
    /\ Trace("connect", "-", FALSE, FALSE, <<>>, <<>>)

\* GhostDistributed.updateDeviceScores(peers), run by the peers-updated
\* listener: insert the new peers, elect, refresh totalDevices, emit.
\* A TypeError in the loop ends the handler before the election.
updateDeviceScores(handler, from, peers) ==
    LET ins == InsertPeers(deviceScores, peers, 1, remoteCaps, latencyTests)
        el  == electMaster(ins.dir, masterPeerId, metrics.masterDevice, myRole)
    IN  /\ deviceScores' = ins.dir
        /\ IF ins.threw
           THEN /\ UNCHANGED <<masterPeerId, myRole, metrics>>
                /\ NoElection
                /\ Trace(handler, from, FALSE, TRUE, <<>>, <<>>)
           ELSE /\ masterPeerId' = el.masterPeerId
                /\ myRole' = el.myRole
                /\ metrics' = [metrics EXCEPT !.masterDevice = el.masterDevice,
                                              !.totalDevices = Len(ins.dir)]
                /\ sameDirElections' =
                       IF ins.dir = deviceScores /\ sameDirElections >= 1
                       THEN 2 ELSE 1
                /\ Trace(handler, from, FALSE, FALSE,
                         el.emitted \o <<SimpleEvent("scores-updated")>>, <<>>)

\* lists of distinct remote peers, as the relay sends them (never the
\* receiver itself)
PeerLists ==
    {<<>>} \cup {<<a>> : a \in RemoteIds}
           \cup {<<a, b>> : <<a, b>> \in {x \in RemoteIds \X RemoteIds : x[1] # x[2]}}

\* handleMessage, case "peer-list"
PeerList(peers) ==
    /\ isConnected
    /\ connectedPeers' = peers
    /\ updateDeviceScores("peer-list", "-", peers)
    /\ UNCHANGED <<remoteCaps, isConnected, dataChannels, latencyTests, taskVars>>

\* handleMessage, case "peer-joined"
PeerJoined(id) ==
    /\ isConnected
    /\ IF \E i \in DOMAIN connectedPeers : connectedPeers[i] = id
       THEN /\ UNCHANGED <<connectedPeers, deviceScores, masterPeerId, myRole,
                           metrics, sameDirElections>>
            /\ Trace("peer-joined", id, FALSE, FALSE, <<>>, <<>>)
       ELSE /\ connectedPeers' = Append(connectedPeers, id)
            /\ updateDeviceScores("peer-joined", id, Append(connectedPeers, id))
    /\ UNCHANGED <<remoteCaps, isConnected, dataChannels, latencyTests, taskVars>>

\* connectedPeers.filter(p => p.id !== peerId)
RECURSIVE Without(_, _)
Without(peers, id) ==
    IF peers = <<>> THEN <<>>
    ELSE IF Head(peers) = id THEN Without(Tail(peers), id)
         ELSE <<Head(peers)>> \o Without(Tail(peers), id)

\* handleMessage, case "peer-left"
PeerLeft(id) ==
    /\ isConnected
    /\ connectedPeers' = Without(connectedPeers, id)
    /\ dataChannels' = dataChannels \ {id}
    /\ updateDeviceScores("peer-left", id, Without(connectedPeers, id))
    /\ UNCHANGED <<remoteCaps, isConnected, latencyTests, taskVars>>

\* channel.onopen, then the channel-open listener: measureLatency(peerId)
ChannelOpen(id) ==
    /\ isConnected
    /\ id \notin dataChannels
    /\ dataChannels' = dataChannels \cup {id}
    /\ Trace("channel-open", id, FALSE, FALSE, <<>>,
             <<[Message(id, "latency-ping", "-", "-") EXCEPT
                   !.onChannel = TRUE, !.timestamp = wire.now]>>)
    /\ UNCHANGED <<remoteCaps, isConnected, connectedPeers, myRole,
                   masterPeerId, deviceScores, latencyTests, taskVars,
                   metrics, sameDirElections>>

\* channel.onclose
ChannelClose(id) ==
    /\ id \in dataChannels
    /\ dataChannels' = dataChannels \ {id}
    /\ Trace("channel-close", id, FALSE, FALSE, <<>>, <<>>)
    /\ UNCHANGED <<remoteCaps, isConnected, connectedPeers, myRole,
                   masterPeerId, deviceScores, latencyTests, taskVars,
                   metrics, sameDirElections>>

(***************************************************************************)
(* GhostDistributed                                                        *)
(***************************************************************************)
\* initialize(): connect if need be, then record the local node
Initialize ==
    /\ isConnected' = TRUE
    /\ deviceScores' = MapSet(deviceScores, DeviceScore(SelfId, MyCapabilities, 0))
    /\ NoElection
    /\ Trace("initialize", SelfId, FALSE, FALSE, <<SimpleEvent("initialized")>>, <<>>)
    /\ UNCHANGED <<remoteCaps, connectedPeers, dataChannels, myRole,
                   masterPeerId, latencyTests, taskVars, metrics>>

\* variant of LatencyPong: a pong from a peer that is not in the directory
\* is dropped before the sample is stored
LatencyPong_DropsUnknown(from, latency) ==
    /\ from \in dataChannels
    /\ Len(latencyTests[from]) < MaxSamples
    /\ IF Has(deviceScores, from)
       THEN /\ latencyTests' = [latencyTests EXCEPT ![from] = Append(@, latency)]
            /\ deviceScores' =
                  LET deviceScore == Get(deviceScores, from)
                  IN  [deviceScores EXCEPT ![IndexOf(deviceScores, from)] =
                          [deviceScore EXCEPT
                              !.latency = latency,
                              !.score = calculateDeviceScore(
                                            deviceScore.capabilities, latency)]]
            /\ metrics' = [metrics EXCEPT
                              !.avgLatency = updateAverageLatency(latencyTests')]
            /\ Trace("latency-pong", from, FALSE, FALSE,
                     <<Event("latency-measured", from, "-", FALSE, latency)>>, <<>>)
       ELSE /\ UNCHANGED <<latencyTests, deviceScores, metrics>>
            /\ Trace("latency-pong", from, FALSE, FALSE, <<>>, <<>>)
    /\ NoElection
    /\ UNCHANGED <<remoteCaps, clientVars, myRole, masterPeerId, taskVars>>

\* handlePeerMessage, case "latency-pong", run on the messages `received`
handleLatencyPong(received, from, latency) ==
    /\ from \in dataChannels
    /\ latencyTests' = [latencyTests EXCEPT ![from] = Append(@, latency)]
    /\ deviceScores' =
          IF Has(deviceScores, from)
          THEN LET deviceScore == Get(deviceScores, from)
               IN  [deviceScores EXCEPT ![IndexOf(deviceScores, from)] =
                       [deviceScore EXCEPT
                           !.latency = latency,
                           !.score = calculateDeviceScore(deviceScore.capabilities,
                                                          latency)]]
          ELSE deviceScores
    /\ metrics' = [metrics EXCEPT !.avgLatency = updateAverageLatency(latencyTests')]
    /\ NoElection
    /\ Received(received, "latency-pong", from, "-", FALSE, FALSE,
                <<Event("latency-measured", from, "-", FALSE, latency)>>, <<>>)
    /\ UNCHANGED <<remoteCaps, clientVars, myRole, masterPeerId, taskVars>>

\* handlePeerMessage, case "latency-pong", with the latency it computes
LatencyPongCall(from, latency) == handleLatencyPong({}, from, latency)

\* handlePeerMessage, case "latency-pong", the samples of a peer capped
LatencyPong(from, latency) ==
    /\ Len(latencyTests[from]) < MaxSamples
    /\ LatencyPongCall(from, latency)

\* start()
Start ==
    /\ isRunning' = TRUE
    /\ Trace("start", "-", FALSE, FALSE, <<SimpleEvent("started")>>, <<>>)
    /\ UNCHANGED <<remoteCaps, clientVars, myRole, masterPeerId, deviceScores,
                   latencyTests, pendingTasks, completedTasks, metrics,
                   sameDirElections>>

\* variant of Stop: the pending tasks are kept
Stop_KeepsPending ==
    /\ isRunning' = FALSE
    /\ UNCHANGED pendingTasks
    /\ Trace("stop", "-", FALSE, FALSE, <<SimpleEvent("stopped")>>, <<>>)
    /\ UNCHANGED <<remoteCaps, clientVars, myRole, masterPeerId, deviceScores,
                   latencyTests, completedTasks, metrics, sameDirElections>>

\* stop()
Stop ==
    /\ isRunning' = FALSE
    /\ pendingTasks' = {}
    /\ Trace("stop", "-", FALSE, FALSE, <<SimpleEvent("stopped")>>, <<>>)
    /\ UNCHANGED <<remoteCaps, clientVars, myRole, masterPeerId, deviceScores,
                   latencyTests, completedTasks, metrics, sameDirElections>>

\* distributeTask(task)
distributeTaskCall(id, type) ==
    LET target == findBestDeviceForTask(deviceScores, type)
    IN  /\ IF ~isRunning
           THEN /\ UNCHANGED <<pendingTasks, metrics>>
                /\ TaskTrace("distributeTask", "-", id, FALSE, FALSE, <<>>, <<>>)
           ELSE IF target = 0
           THEN /\ metrics' = [metrics EXCEPT !.failedTasks = @ + 1]
                /\ UNCHANGED pendingTasks
                /\ TaskTrace("distributeTask", "-", id, FALSE, FALSE, <<>>, <<>>)
           ELSE /\ pendingTasks' = {t \in pendingTasks : t.id # id}
                                     \cup {[id |-> id, type |-> type]}
                /\ metrics' = [metrics EXCEPT !.tasksDistributed = @ + 1]
                /\ TaskTrace("distributeTask", deviceScores[target].peerId, id,
                             TRUE, FALSE, <<>>,
                             <<Message(deviceScores[target].peerId, "task-assign",
                                       id, type)>>)
        /\ UNCHANGED <<remoteCaps, clientVars, myRole, masterPeerId, deviceScores,
                       latencyTests, completedTasks, isRunning, sameDirElections>>

\* distributeTask(task), the two counters capped
distributeTask(id, type) ==
    /\ metrics.failedTasks < MaxFailedTasks
    /\ metrics.tasksDistributed < MaxTasksDistributed
    /\ distributeTaskCall(id, type)

\* variant of TaskResult: the result is recorded whether or not the task is
\* pending
TaskResult_NoPendingCheck(from, taskId) ==
    /\ from \in dataChannels
    /\ pendingTasks' = {t \in pendingTasks : t.id # taskId}
    /\ completedTasks' = {c \in completedTasks : c.taskId # taskId}
                           \cup {[taskId |-> taskId, result |-> Result(from),
                                  from |-> from]}
    /\ TaskTrace("task-result", from, taskId, FALSE, FALSE,
                 <<TaskEvent("task-completed", taskId, Result(from), from)>>, <<>>)
    /\ UNCHANGED <<remoteCaps, clientVars, myRole, masterPeerId, deviceScores,
                   latencyTests, isRunning, metrics, sameDirElections>>

\* variant of handleTaskResult: the task is recorded as completed and stays
\* pending
handleTaskResult_KeepsPending(received, from, taskId, result) ==
    /\ from \in dataChannels
    /\ IF \E t \in pendingTasks : t.id = taskId
       THEN /\ UNCHANGED pendingTasks
            /\ completedTasks' = {c \in completedTasks : c.taskId # taskId}
                                   \cup {[taskId |-> taskId, result |-> result,
                                          from |-> from]}
            /\ Received(received, "task-result", from, taskId, FALSE, FALSE,
                        <<TaskEvent("task-completed", taskId, result, from)>>,
                        <<>>)
       ELSE /\ UNCHANGED <<pendingTasks, completedTasks>>
            /\ Received(received, "task-result", from, taskId, FALSE, FALSE,
                        <<>>, <<>>)
    /\ UNCHANGED <<remoteCaps, clientVars, myRole, masterPeerId, deviceScores,
                   latencyTests, isRunning, metrics, sameDirElections>>

\* handleTaskResult(from, taskId, result), run on the messages `received`
handleTaskResult(received, from, taskId, result) ==
    /\ from \in dataChannels
    /\ IF \E t \in pendingTasks : t.id = taskId
       THEN /\ pendingTasks' = {t \in pendingTasks : t.id # taskId}
            /\ completedTasks' = {c \in completedTasks : c.taskId # taskId}
                                   \cup {[taskId |-> taskId, result |-> result,
                                          from |-> from]}
            /\ Received(received, "task-result", from, taskId, FALSE, FALSE,
                        <<TaskEvent("task-completed", taskId, result, from)>>,
                        <<>>)
       ELSE /\ UNCHANGED <<pendingTasks, completedTasks>>
            /\ Received(received, "task-result", from, taskId, FALSE, FALSE,
                        <<>>, <<>>)
    /\ UNCHANGED <<remoteCaps, clientVars, myRole, masterPeerId, deviceScores,
                   latencyTests, isRunning, metrics, sameDirElections>>

\* handlePeerMessage, case "task-result", with the result of the sender
TaskResult(from, taskId) == handleTaskResult({}, from, taskId, Result(from))

(***************************************************************************)
(* Specifications                                                          *)
(***************************************************************************)
\* which capabilities the two remote peers' list entries carry; the peer
\* ids are interchangeable, so one order of each pair is enough
Scenario(c1, c2) == [id \in RemoteIds |-> IF id = "p1" THEN c1 ELSE c2]

DirectoryScenarios ==
    {Scenario(GpuFull, GpuFull), Scenario(GpuFull, CpuFull),
     Scenario(CpuFull, CpuFull), Scenario(NoCapabilities, GpuFull)}

TaskScenarios ==
    {Scenario(GpuLean, CpuFull), Scenario(CpuFull, CpuFull),
     Scenario(Bare, GpuLean), Scenario(Bare, Bare)}

Init == InitState([RemoteIds -> Profiles \cup {NoCapabilities}])
InitDirectory == InitState(DirectoryScenarios)
InitTasks == InitState(TaskScenarios)

\* connection, peer list, channels, latency samples and election (the relay
\* of part_005 never sends "peer-joined", so that case is left to Next)
NextDirectory ==
    \/ Connect
    \/ Initialize
    \/ \E peers \in PeerLists : PeerList(peers)
    \/ \E id \in RemoteIds : PeerLeft(id)
    \/ \E id \in RemoteIds : ChannelOpen(id)
    \/ \E id \in RemoteIds, latency \in Latencies : LatencyPong(id, latency)

\* task distribution over a directory built by initialize, peer lists and
\* latency samples
NextTasks ==
    \/ Initialize
    \/ \E peers \in PeerLists : PeerList(peers)
    \/ \E id \in RemoteIds : ChannelOpen(id)
    \/ \E id \in RemoteIds, latency \in TaskLatencies : LatencyPong(id, latency)
    \/ Start
    \/ Stop
    \/ \E id \in TaskIds, type \in TaskTypes : distributeTask(id, type)
    \/ \E id \in RemoteIds, taskId \in TaskIds : TaskResult(id, taskId)

Next ==
    \/ NextDirectory
    \/ NextTasks
    \/ \E id \in RemoteIds : PeerJoined(id)
    \/ \E id \in RemoteIds : ChannelClose(id)

\* the whole node
Spec == Init /\ [][Next]_vars
\* the node without task distribution, whose actions leave the directory,
\* the samples and the election as they are
SpecDirectory == InitDirectory /\ [][NextDirectory]_vars
\* the node with its task distribution, without peer departures
SpecTasks == InitTasks /\ [][NextTasks]_vars

\* task ids as handleStartTest makes them, `task-${Date.now()}`: two calls in
\* the same millisecond, or after the clock was set back, carry the same id
DispatchIds == {"t1", "t2"}
MaxDispatches == 2
DispatchPeerLists == {<<"p1">>, <<"p1", "p2">>}
InitDispatch == InitState({Scenario(CpuFull, CpuFull)})

\* the life of tasks: dispatched, completed by a result, discarded by stop
NextDispatch ==
    \/ Initialize
    \/ \E peers \in DispatchPeerLists : PeerList(peers)
    \/ \E id \in RemoteIds : ChannelOpen(id)
    \/ Start
    \/ Stop
    \/ \E id \in DispatchIds :
          /\ metrics.tasksDistributed < MaxDispatches
          /\ metrics.failedTasks < MaxFailedTasks
          /\ distributeTaskCall(id, "render")
    \/ \E id \in RemoteIds, taskId \in DispatchIds : TaskResult(id, taskId)

SpecDispatch == InitDispatch /\ [][NextDispatch]_vars

\* a run of latency samples: 10, 20, 30 ms among them
SampleLatencies == {10, 20, 30}
\* cap on the samples stored, all peers together
MaxLatencySamples == 4
InitLatency == InitState({Scenario(GpuFull, CpuFull)})

\* latency samples arriving for the peers of a list
NextLatency ==
    \/ Initialize
    \/ \E peers \in DispatchPeerLists : PeerList(peers)
    \/ \E id \in RemoteIds : ChannelOpen(id)
    \/ \E id \in RemoteIds, latency \in SampleLatencies :
          /\ Len(latencyTests["p1"]) + Len(latencyTests["p2"]) < MaxLatencySamples
          /\ LatencyPongCall(id, latency)

SpecLatency == InitLatency /\ [][NextLatency]_vars

(***************************************************************************)
(* The peers at the far end of the data channels                           *)
(***************************************************************************)
\* the local node's variables, which a step of a remote peer leaves alone
engineVars ==
    <<remoteCaps, isConnected, connectedPeers, dataChannels, myRole,
      masterPeerId, deviceScores, latencyTests, pendingTasks, completedTasks,
      isRunning, metrics, sameDirElections>>

\* a step outside the local node
Remote(handler, peer) ==
    /\ Observed(handler, peer, "-", FALSE, FALSE, <<>>, <<>>)
    /\ UNCHANGED engineVars

\* the last reading of performance.now() the run reaches
MaxClock == 2
\* performance.now() moves on
Tick ==
    /\ "latency-ping" \in wire.tracked
    /\ wire.now < MaxClock
    /\ wire' = [wire EXCEPT !.now = @ + 1]
    /\ Remote("clock", "-")

\* readings of performance.now() at a remote peer
RemoteClock == {7}

\* channel.onopen at the remote peer p: its measureLatency sends a
\* latency-ping with its own timestamp
RemoteChannelOpen(p) ==
    /\ "latency-ping" \in wire.tracked
    /\ p \in dataChannels
    /\ p \notin wire.pinged
    /\ \E startTime \in RemoteClock :
          wire' = [wire EXCEPT
                      !.pinged = @ \cup {p},
                      !.msgs = @ \cup {Wire(p, SelfId, "latency-ping", "-", NoResult,
                                            startTime)}]
    /\ Remote("remote channel-open", p)

\* variant of RemotePing: the pong carries the replier's own clock
RemotePing_OwnClock(m) ==
    /\ m \in wire.msgs
    /\ m.to \in RemoteIds
    /\ m.type = "latency-ping"
    /\ \E now \in RemoteClock :
          wire' = [wire EXCEPT
                      !.msgs = (@ \ {m}) \cup
                               {Wire(m.to, m.from, "latency-pong", "-", NoResult,
                                     now)}]
    /\ Remote("remote latency-ping", m.to)

\* handlePeerMessage at a remote peer, case "latency-ping": the pong goes
\* back to the sender with originalTimestamp: data.timestamp
RemotePing(m) ==
    /\ m \in wire.msgs
    /\ m.to \in RemoteIds
    /\ m.type = "latency-ping"
    /\ wire' = [wire EXCEPT
                    !.msgs = (@ \ {m}) \cup
                             {Wire(m.to, m.from, "latency-pong", "-", NoResult,
                                   m.timestamp)}]
    /\ Remote("remote latency-ping", m.to)

\* handlePeerMessage at a remote peer, case "latency-pong": the sample is
\* the remote peer's
RemotePong(m) ==
    /\ m \in wire.msgs
    /\ m.to \in RemoteIds
    /\ m.type = "latency-pong"
    /\ wire' = [wire EXCEPT !.msgs = @ \ {m}]
    /\ Remote("remote latency-pong", m.to)

\* variant of RemoteAssign: the assignment is taken and no timer is set
RemoteAssign_NoTimer(m) ==
    /\ m \in wire.msgs
    /\ m.to \in RemoteIds
    /\ m.type = "task-assign"
    /\ wire' = [wire EXCEPT !.msgs = @ \ {m}]
    /\ Remote("remote task-assign", m.to)

\* handleTaskAssignment at a remote peer: task-received is emitted there
\* and the timer of 10 ms is set
RemoteAssign(m) ==
    /\ m \in wire.msgs
    /\ m.to \in RemoteIds
    /\ m.type = "task-assign"
    /\ wire' = [wire EXCEPT
                    !.msgs = @ \ {m},
                    !.timers = @ \cup {[peer |-> m.to, taskId |-> m.taskId]}]
    /\ Remote("remote task-assign", m.to)

\* a third node dispatches a task of the given id to the remote peer p,
\* which handles the assignment
OtherAssign(p, taskId) ==
    /\ "task-assign" \in wire.tracked
    /\ [peer |-> p, taskId |-> taskId] \notin wire.timers
    /\ wire' = [wire EXCEPT !.timers = @ \cup {[peer |-> p, taskId |-> taskId]}]
    /\ Remote("other task-assign", p)

\* the timer of handleTaskAssignment fires at a remote peer: the
\* task-result is broadcast on all its open channels, the one to the local
\* node among them
RemoteTimer(t) ==
    /\ t \in wire.timers
    /\ wire' = [wire EXCEPT
                    !.timers = @ \ {t},
                    !.msgs = @ \cup
                        (IF t.peer \in dataChannels
                         THEN {Wire(t.peer, SelfId, "task-result", t.taskId,
                                    Result(t.peer), 0)}
                         ELSE {})]
    /\ Remote("remote timer", t.peer)

\* handlePeerMessage, case "latency-ping", on the message m
LatencyPingMessage(m) ==
    /\ m \in wire.msgs
    /\ m.to = SelfId
    /\ m.type = "latency-ping"
    /\ Received({m}, "latency-ping", m.from, "-", FALSE, FALSE, <<>>,
                <<[Message(m.from, "latency-pong", "-", "-") EXCEPT
                      !.timestamp = m.timestamp]>>)
    /\ UNCHANGED engineVars

\* handlePeerMessage, case "latency-pong", on the message m: the latency
\* is performance.now() - data.originalTimestamp
LatencyPongMessage(m) ==
    /\ m \in wire.msgs
    /\ m.to = SelfId
    /\ m.type = "latency-pong"
    /\ handleLatencyPong({m}, m.from, wire.now - m.timestamp)

\* handlePeerMessage, case "task-result", on the message m
TaskResultMessage(m) ==
    /\ m \in wire.msgs
    /\ m.to = SelfId
    /\ m.type = "task-result"
    /\ handleTaskResult({m}, m.from, m.taskId, m.result)

\* the messages a run can hold, by sender and type
Messages(from, to, type, taskIds, results, timestamps) ==
    {Wire(f, t, type, id, r, ts) :
        f \in from, t \in to, id \in taskIds, r \in results, ts \in timestamps}
LocalPings   == Messages({SelfId}, RemoteIds, "latency-ping", {"-"}, {NoResult},
                         0..MaxClock)
LocalPongs   == Messages({SelfId}, RemoteIds, "latency-pong", {"-"}, {NoResult},
                         RemoteClock)
RemotePings  == Messages(RemoteIds, {SelfId}, "latency-ping", {"-"}, {NoResult},
                         RemoteClock)
RemotePongs  == Messages(RemoteIds, {SelfId}, "latency-pong", {"-"}, {NoResult},
                         0..MaxClock)
Assignments  == Messages({SelfId}, RemoteIds, "task-assign", TaskIds, {NoResult},
                         {0})
Results      == {Wire(p, SelfId, "task-result", id, Result(p), 0) :
                    p \in RemoteIds, id \in TaskIds}
\* the timers a run can hold
Timers       == {[peer |-> p, taskId |-> id] : p \in RemoteIds, id \in TaskIds}

InitNetwork ==
    InitWith({Scenario(CpuFull, CpuFull)}, {"task-assign", "task-result"})

\* tasks dispatched to the peers and their results coming back, every
\* message delivered, no stop()
NextNetwork ==
    \/ Initialize
    \/ \E peers \in DispatchPeerLists : PeerList(peers)
    \/ \E id \in RemoteIds : ChannelOpen(id)
    \/ Start
    \/ \E id \in TaskIds :
          /\ metrics.tasksDistributed < MaxTasksDistributed
          /\ metrics.failedTasks < MaxFailedTasks
          /\ distributeTaskCall(id, "render")
    \/ \E p \in RemoteIds, id \in TaskIds : OtherAssign(p, id)
    \/ \E m \in wire.msgs : RemoteAssign(m)
    \/ \E t \in wire.timers : RemoteTimer(t)
    \/ \E m \in wire.msgs : TaskResultMessage(m)

\* every message sent on an open channel is delivered and handled, and
\* every timer that was set fires
Delivery ==
    /\ \A m \in Assignments : WF_vars(RemoteAssign(m))
    /\ \A t \in Timers : WF_vars(RemoteTimer(t))
    /\ \A m \in Results : WF_vars(TaskResultMessage(m))

SpecNetwork == InitNetwork /\ [][NextNetwork]_vars /\ Delivery

InitProbe ==
    InitWith({Scenario(GpuFull, CpuFull)}, {"latency-ping", "latency-pong"})

\* latency probes in both directions, every message delivered
NextProbe ==
    \/ Initialize
    \/ \E peers \in DispatchPeerLists : PeerList(peers)
    \/ \E id \in RemoteIds : ChannelOpen(id)
    \/ Tick
    \/ \E p \in RemoteIds : RemoteChannelOpen(p)
    \/ \E m \in wire.msgs : RemotePing(m)
    \/ \E m \in wire.msgs : RemotePong(m)
    \/ \E m \in wire.msgs : LatencyPingMessage(m)
    \/ \E m \in wire.msgs : LatencyPongMessage(m)

\* every probe and every reply is delivered and handled
ProbeDelivery ==
    /\ \A m \in LocalPings : WF_vars(RemotePing(m))
    /\ \A m \in LocalPongs : WF_vars(RemotePong(m))
    /\ \A m \in RemotePings : WF_vars(LatencyPingMessage(m))
    /\ \A m \in RemotePongs : WF_vars(LatencyPongMessage(m))

SpecProbe == InitProbe /\ [][NextProbe]_vars /\ ProbeDelivery

\* capabilities a peer can announce: every combination of the flags, memory
\* below, at and above the 10 GB cap, bandwidth below, at and above the
\* 100 Mbps cap
ScoreMemories == {0, 512, 4096, 5120, 10240, 20480}
ScoreBandwidths == {0, 5, 100, 200}
ScoreProfiles ==
    {Caps(gpu, wasm, mem, bw, render, compute, store) :
        gpu \in BOOLEAN, wasm \in BOOLEAN, mem \in ScoreMemories,
        bw \in ScoreBandwidths, render \in BOOLEAN, compute \in BOOLEAN,
        store \in BOOLEAN}
\* round-trip times below, at and above the 200 ms cap of the penalty
ScoreLatencies == {0, 5, 14, 15, 200, 250}
\* two GPU peers that enter the directory with scores 69 and 70
Gpu69 == Caps(TRUE, FALSE, 4096, 100, TRUE, FALSE, TRUE)
Gpu70 == Caps(TRUE, FALSE, 5120, 100, TRUE, FALSE, TRUE)
InitScore ==
    InitState({Scenario(c, Bare) : c \in ScoreProfiles} \cup {Scenario(Gpu69, Gpu70)})

\* calculateDeviceScore and suggestRole applied as the engine applies them:
\* when a peer enters the directory and when a sample arrives for it
NextScore ==
    \/ Connect
    \/ \E peers \in DispatchPeerLists : PeerList(peers)
    \/ ChannelOpen("p1")
    \/ \E latency \in ScoreLatencies : LatencyPong("p1", latency)

SpecScore == InitScore /\ [][NextScore]_vars

(***************************************************************************)
(* Properties                                                              *)
(***************************************************************************)
\* the last handler ran updateDeviceScores to its end: the state is the one
\* right after a peer-list update was processed
ScoresUpdated == "scores-updated" \in EventNames(emitted)

\* the peers the engine holds as elected master, in masterPeerId or in
\* metrics.masterDevice
ElectedMasters ==
    {p \in PeerIds : masterPeerId = p \/ metrics.masterDevice = p}

\* C1: in every reachable state at most one peer is designated as the
\* elected master: masterPeerId and metrics.masterDevice never name two
\* different peers.
C1_AtMostOneMaster == Cardinality(ElectedMasters) <= 1

\* a master is elected while another peer of the directory is suggested
\* as master too
C1_Witness ==
    /\ Cardinality(ElectedMasters) = 1
    /\ \E i \in DOMAIN deviceScores :
          /\ deviceScores[i].suggestedRole = "master"
          /\ deviceScores[i].peerId # masterPeerId
    /\ "master-elected" \in EventNames(emitted)

\* C2: an election that runs on the directory the previous election ran
\* on keeps the master and emits neither master-elected nor role-changed.
C2_ElectionIdempotent ==
    [][(/\ sameDirElections >= 1
        /\ "scores-updated" \in EventNames(emitted')
        /\ deviceScores' = deviceScores)
       => (/\ masterPeerId' = masterPeerId
           /\ myRole' = myRole
           /\ "master-elected" \notin EventNames(emitted')
           /\ "role-changed" \notin EventNames(emitted'))]_vars

\* a second election in a row over a directory of several peers with a
\* master in place
C2_Witness ==
    /\ sameDirElections = 2
    /\ ScoresUpdated
    /\ masterPeerId # NoPeer
    /\ Len(deviceScores) >= 2

\* the peers an election chooses among: the master-suggested ones, or all
\* of them when there is none
C3_Candidates(ds) ==
    IF \E i \in DOMAIN ds : ds[i].suggestedRole = "master"
    THEN {i \in DOMAIN ds : ds[i].suggestedRole = "master"}
    ELSE DOMAIN ds

\* the candidate of highest score, the first inserted among equals
C3_Expected(ds) ==
    ds[CHOOSE i \in C3_Candidates(ds) :
          \A j \in C3_Candidates(ds) :
             \/ ds[j].score < ds[i].score
             \/ (ds[j].score = ds[i].score /\ i <= j)].peerId

\* C3: right after a peer-list update is processed on a non-empty
\* directory, the elected master is the highest-scored master-suggested
\* peer, or the highest-scored peer when none is master-suggested; of
\* equal scores the peer inserted first wins.
C3_ElectedIsBest ==
    (ScoresUpdated /\ deviceScores # <<>>)
        => masterPeerId = C3_Expected(deviceScores)

\* an update processed with two candidates of the same, highest score
C3_Witness ==
    /\ ScoresUpdated
    /\ \E i, j \in C3_Candidates(deviceScores) :
          /\ i < j
          /\ deviceScores[i].score = deviceScores[j].score
          /\ deviceScores[i].peerId = masterPeerId
          /\ \A k \in C3_Candidates(deviceScores) :
                deviceScores[k].score <= deviceScores[i].score

\* C4: a latency-pong for a peer of the directory re-elects: when the
\* master was the winner of an election over the directory before the
\* sample, it is the winner over the directory as the sample leaves it.
C4_PongReelects ==
    [][(/\ lastHandler' = "latency-pong"
        /\ Has(deviceScores, lastFrom')
        /\ masterPeerId = ElectionWinner(deviceScores))
       => masterPeerId' = ElectionWinner(deviceScores')]_vars

\* C5: whenever an election has run, the directory holds a record of the
\* local node with latency 0.
C5_SelfPresentAtElection ==
    ScoresUpdated
        => (/\ Has(deviceScores, SelfId)
            /\ Get(deviceScores, SelfId).latency = 0)

\* C6: after a peer-left for peer P is processed the directory holds no
\* record of P.
C6_LeftPeerRemoved ==
    lastHandler = "peer-left" => ~Has(deviceScores, lastFrom)

\* the last step handled a latency-pong from a peer that was not in the
\* directory
C7_UnknownPong == lastHandler' = "latency-pong" /\ ~Has(deviceScores, lastFrom')

\* C7 as claimed: a latency-pong from a peer that is not in the directory
\* changes neither the directory, the stored samples, the average
\* latency nor the master, and emits no latency-measured event.
C7_UnknownPongIsNoOp ==
    [][C7_UnknownPong
       => (/\ deviceScores' = deviceScores
           /\ latencyTests' = latencyTests
           /\ metrics'.avgLatency = metrics.avgLatency
           /\ masterPeerId' = masterPeerId
           /\ "latency-measured" \notin EventNames(emitted'))]_vars

\* the mean of the last samples: total over count
C7_MeanOfLast(lt) ==
    LET sampled == {id \in RemoteIds : lt[id] # <<>>}
    IN  [total |-> SumLast(lt, sampled), count |-> Cardinality(sampled)]

\* C7 as amended: a latency-pong from a peer that is not in the directory
\* leaves the directory, the elected master and the local role as they
\* are, appends the sample to that peer's stored samples, sets the
\* average latency to the mean of the peers' last samples and emits one
\* latency-measured event for that peer.
C7_UnknownPongRecordsSample ==
    [][C7_UnknownPong
       => (/\ deviceScores' = deviceScores
           /\ masterPeerId' = masterPeerId
           /\ metrics'.masterDevice = metrics.masterDevice
           /\ myRole' = myRole
           /\ Len(emitted') = 1
           /\ emitted'[1].name = "latency-measured"
           /\ emitted'[1].peer = lastFrom'
           /\ latencyTests' =
                 [latencyTests EXCEPT
                     ![lastFrom'] = Append(@, emitted'[1].latency)]
           /\ metrics'.avgLatency = C7_MeanOfLast(latencyTests')
           /\ metrics'.avgLatency.count >= 1)]_vars

\* a sample is stored for a peer the directory does not hold
C7_Witness ==
    /\ lastHandler = "latency-pong"
    /\ ~Has(deviceScores, lastFrom)
    /\ Len(latencyTests[lastFrom]) >= 1
    /\ deviceScores # <<>>

\* C8: distributeTask on an engine that is not running returns false and
\* adds one to failedTasks; pending tasks and tasksDistributed stay and
\* nothing is sent.
C8_NotRunningCountsFailure ==
    [][(lastHandler' = "distributeTask" /\ ~isRunning)
       => (/\ returned' = FALSE
           /\ metrics'.failedTasks = metrics.failedTasks + 1
           /\ pendingTasks' = pendingTasks
           /\ metrics'.tasksDistributed = metrics.tasksDistributed
           /\ sent' = <<>>)]_vars

\* C9: distributeTask on a running engine whose directory holds the local
\* node alone returns false without throwing, adds exactly one to
\* failedTasks, adds no pending task, sends nothing and leaves
\* tasksDistributed.
C9_OnlySelfFails ==
    [][(/\ lastHandler' = "distributeTask"
        /\ isRunning
        /\ DirIds(deviceScores) = {SelfId})
       => (/\ returned' = FALSE
           /\ threw' = FALSE
           /\ metrics'.failedTasks = metrics.failedTasks + 1
           /\ pendingTasks' = pendingTasks
           /\ sent' = <<>>
           /\ metrics'.tasksDistributed = metrics.tasksDistributed)]_vars

\* a task was refused on a running engine that knows itself alone
C9_Witness ==
    /\ lastHandler = "distributeTask"
    /\ isRunning
    /\ DirIds(deviceScores) = {SelfId}
    /\ metrics.failedTasks = 1
    /\ returned = FALSE

\* five times the suitability the claim states:
\* score + affinity bonus - latency / 5
C10_Suitability5(device, taskType) ==
    LET c == device.capabilities
        bonus == CASE taskType = "render" /\ c.hasGPU /\ c.canRender -> 30
                   [] taskType = "physics" /\ c.hasWASM /\ c.canCompute -> 20
                   [] taskType = "texture" /\ c.canStore -> 15
                   [] OTHER -> 0
    IN  5 * device.score + 5 * bonus - device.latency

\* ds[b] is not the local node and no other peer suits the task better,
\* nor as well from an earlier place
C10_MostSuitable(ds, b, taskType) ==
    /\ ds[b].peerId # SelfId
    /\ \A j \in DOMAIN ds :
          ds[j].peerId # SelfId
             => \/ C10_Suitability5(ds[j], taskType) < C10_Suitability5(ds[b], taskType)
                \/ /\ C10_Suitability5(ds[j], taskType) = C10_Suitability5(ds[b], taskType)
                   /\ b <= j

\* C10: whenever findBestDeviceForTask returns a peer for a task type,
\* that peer has the greatest suitability among the peers other than the
\* local node, the first inserted among equals; the task distributeTask
\* has just dispatched went to such a peer.
C10_TargetIsMostSuitable ==
    /\ \A taskType \in TaskTypes :
          LET b == findBestDeviceForTask(deviceScores, taskType)
          IN  b # 0 => C10_MostSuitable(deviceScores, b, taskType)
    /\ (lastHandler = "distributeTask" /\ returned)
          => /\ Len(sent) = 1
             /\ sent[1].to = lastFrom
             /\ Has(deviceScores, lastFrom)
             /\ C10_MostSuitable(deviceScores, IndexOf(deviceScores, lastFrom),
                                 sent[1].taskType)

\* a render task went to a GPU peer of score 50 although a peer without
\* GPU scores 60 at the same latency
C10_Witness ==
    /\ lastHandler = "distributeTask"
    /\ returned
    /\ sent[1].taskType = "render"
    /\ \E i, j \in DOMAIN deviceScores :
          /\ deviceScores[i].peerId = lastFrom
          /\ deviceScores[i].score = 50
          /\ deviceScores[i].capabilities.hasGPU
          /\ deviceScores[i].capabilities.canRender
          /\ deviceScores[j].score = 60
          /\ ~deviceScores[j].capabilities.hasGPU
          /\ deviceScores[j].latency = deviceScores[i].latency

\* the task id is in the pending set
IsPending(taskId) == \E t \in pendingTasks : t.id = taskId

\* C11: a task-result for a task id that is not in the pending set (one
\* already completed among them) emits no task-completed event, leaves the
\* recorded results, the pending set and every metric as they are and
\* raises no error.
C11_ResultIdempotent ==
    [][(lastHandler' = "task-result" /\ ~IsPending(lastTask'))
       => (/\ completedTasks' = completedTasks
           /\ pendingTasks' = pendingTasks
           /\ metrics' = metrics
           /\ emitted' = <<>>
           /\ threw' = FALSE)]_vars

\* a second result, from another peer, for a task whose first result is
\* on record
C11_Witness ==
    /\ lastHandler = "task-result"
    /\ emitted = <<>>
    /\ \E c \in completedTasks : c.taskId = lastTask /\ c.from # lastFrom

\* C12: no task id is dispatched (task-assign sent, tasksDistributed
\* incremented) while an earlier dispatch with the same id is in the
\* pending set.
C12_NoReuseWhilePending ==
    [][(/\ lastHandler' = "distributeTask"
        /\ returned'
        /\ metrics'.tasksDistributed = metrics.tasksDistributed + 1)
       => ~IsPending(lastTask')]_vars

\* the last handler took a task-result and ignored it
C13_Ignored ==
    /\ completedTasks' = completedTasks
    /\ "task-completed" \notin EventNames(emitted')

\* C13: stop() clears the running flag and empties the pending set and
\* leaves failedTasks, tasksDistributed and the recorded results; a
\* task-result that arrives while the engine is stopped, or later for an id
\* that is not pending again, is ignored.
C13_StopDiscards ==
    [][/\ lastHandler' = "stop"
          => (/\ ~isRunning'
              /\ pendingTasks' = {}
              /\ metrics'.failedTasks = metrics.failedTasks
              /\ metrics'.tasksDistributed = metrics.tasksDistributed
              /\ completedTasks' = completedTasks
              /\ threw' = FALSE)
       /\ (lastHandler' = "task-result" /\ ~isRunning) => C13_Ignored
       /\ (lastHandler' = "task-result" /\ ~IsPending(lastTask'))
             => C13_Ignored]_vars

\* the result of a task that was dispatched and then discarded by stop()
\* has arrived: nothing is pending, nothing is completed, nothing failed
C13_Witness ==
    /\ lastHandler = "task-result"
    /\ lastTask \in TaskIds
    /\ metrics.tasksDistributed = 1
    /\ metrics.failedTasks = 0
    /\ pendingTasks = {}
    /\ completedTasks = {}
    /\ emitted = <<>>

\* the most recent sample of a peer, 0 for a peer without samples
C14_Latest(lt, id) == IF lt[id] = <<>> THEN 0 ELSE lt[id][Len(lt[id])]

\* the mean of the most recent samples of the peers that have samples, as
\* total over count
C14_Mean(lt) ==
    [total |-> C14_Latest(lt, "p1") + C14_Latest(lt, "p2"),
     count |-> Cardinality({id \in RemoteIds : lt[id] # <<>>})]

\* C14: after a latency sample for a known peer the peer's record holds
\* that sample as its latency, and avgLatency is the mean, over the peers
\* with at least one sample, of each peer's most recent sample.
C14_LatestSampleWins ==
    /\ (lastHandler = "latency-pong" /\ Has(deviceScores, lastFrom))
          => Get(deviceScores, lastFrom).latency = C14_Latest(latencyTests, lastFrom)
    /\ metrics.avgLatency = C14_Mean(latencyTests)

\* the samples 10, 20, 30 have arrived for the known peer p1 and one
\* sample for p2
C14_Witness ==
    /\ lastHandler = "latency-pong"
    /\ lastFrom = "p1"
    /\ Has(deviceScores, "p1")
    /\ latencyTests["p1"] = <<10, 20, 30>>
    /\ Get(deviceScores, "p1").latency = 30
    /\ latencyTests["p2"] = <<10>>
    /\ metrics.avgLatency = [total |-> 40, count |-> 2]

\* the integer nearest to num / den, the upper one of two equally near
C15_Nearest(num, den) ==
    CHOOSE n \in -40..130 :
        /\ 2 * den * n - den <= 2 * num
        /\ 2 * num < 2 * den * n + den

\* the score as the claim states it, over the common denominator 10240:
\* max(0, round(40*hasGPU + 20*hasWASM + 20*canRender + 10*canCompute
\*   + min(maxMemory/1024, 10) + min(bandwidth/10, 10) - min(latency/10, 20)))
C15_Score(c, latency) ==
    LET flags == 40 * (IF c.hasGPU THEN 1 ELSE 0) + 20 * (IF c.hasWASM THEN 1 ELSE 0)
               + 20 * (IF c.canRender THEN 1 ELSE 0)
               + 10 * (IF c.canCompute THEN 1 ELSE 0)
        memory10240 == IF c.maxMemory >= 10240 THEN 102400 ELSE 10 * c.maxMemory
        bandwidth10240 == IF c.bandwidth >= 100 THEN 102400 ELSE 1024 * c.bandwidth
        penalty10240 == IF latency >= 200 THEN 204800 ELSE 1024 * latency
        n == C15_Nearest(10240 * flags + memory10240 + bandwidth10240 - penalty10240,
                         10240)
    IN  IF n < 0 THEN 0 ELSE n

\* C15: every record's score is the claimed function of its capabilities
\* and latency; it is never negative, it is never more than 20 below the
\* score at latency 0, and the all-true profile with 10240 MB and 100 Mbps
\* at latency 0 scores 110.
C15_ScoreFormula ==
    /\ \A i \in DOMAIN deviceScores :
          LET d == deviceScores[i]
          IN  /\ d.score = C15_Score(d.capabilities, d.latency)
              /\ d.score >= 0
              /\ d.score >= C15_Score(d.capabilities, 0) - 20
              /\ (d.capabilities = Caps(TRUE, TRUE, 10240, 100, TRUE, TRUE, TRUE)
                    /\ d.latency = 0) => d.score = 110
    /\ calculateDeviceScore(Caps(TRUE, TRUE, 10240, 100, TRUE, TRUE, TRUE), 0) = 110

\* the all-true profile at latency 0, scored 110
C15_Witness ==
    \E i \in DOMAIN deviceScores :
        /\ deviceScores[i].capabilities = Caps(TRUE, TRUE, 10240, 100, TRUE, TRUE, TRUE)
        /\ deviceScores[i].latency = 0
        /\ deviceScores[i].score = 110
        /\ lastHandler = "latency-pong"

\* the role is the one the claim's rules give, each rule stated with the
\* failure of the rules before it
C16_RoleMatches(c, score, role) ==
    LET master  == score >= 70 /\ c.hasGPU /\ c.canRender
        compute == score >= 50 /\ c.hasWASM /\ c.canCompute
        storage == score >= 30 /\ c.canStore
    IN  /\ role = "master" <=> master
        /\ role = "compute" <=> (~master /\ compute)
        /\ role = "storage" <=> (~master /\ ~compute /\ storage)
        /\ role = "display" <=> (~master /\ ~compute /\ ~storage)

\* C16: a peer enters the directory with the role the rules give for its
\* capabilities and score, first match winning: master iff score >= 70 with
\* hasGPU and canRender, else compute iff score >= 50 with hasWASM and
\* canCompute, else storage iff score >= 30 with canStore, else display.
C16_RoleRules ==
    [][\A id \in PeerIds :
          (~Has(deviceScores, id) /\ Has(deviceScores', id))
             => LET d == Get(deviceScores', id)
                IN  /\ d.suggestedRole = suggestRole(d.capabilities, d.score)
                    /\ C16_RoleMatches(d.capabilities, d.score, d.suggestedRole)]_vars

\* with hasGPU and canRender, a peer entered at score 70 as master and
\* another at score 69 as something else
C16_Witness ==
    /\ lastHandler = "peer-list"
    /\ \E i, j \in DOMAIN deviceScores :
          /\ deviceScores[i].capabilities.hasGPU
          /\ deviceScores[i].capabilities.canRender
          /\ deviceScores[i].score = 70
          /\ deviceScores[i].suggestedRole = "master"
          /\ deviceScores[j].capabilities.hasGPU
          /\ deviceScores[j].capabilities.canRender
          /\ deviceScores[j].score = 69
          /\ deviceScores[j].suggestedRole # "master"

\* C17: in every reachable state each record's suggestedRole is
\* suggestRole of the record's capabilities and current score.
C17_RoleFollowsScore ==
    \A i \in DOMAIN deviceScores :
        deviceScores[i].suggestedRole =
            suggestRole(deviceScores[i].capabilities, deviceScores[i].score)

\* C18: whenever the directory holds the local node and nothing else, the
\* local node is the elected master.
C18_SelfAloneIsMaster ==
    DirIds(deviceScores) = {SelfId} => masterPeerId = SelfId

\* C19: distributeTask on a running engine whose directory holds a peer
\* other than the local node selects a target and dispatches the task.
C19_RemotePeerIsTarget ==
    [][(/\ lastHandler' = "distributeTask"
        /\ isRunning
        /\ DirIds(deviceScores) \ {SelfId} # {})
       => (/\ returned'
           /\ Len(sent') = 1
           /\ metrics'.failedTasks = metrics.failedTasks)]_vars

\* C20: for every task type the device findBestDeviceForTask returns is
\* not the local node, and the task-assign of a dispatch never goes to the
\* local peer id.
C20_NeverSelf ==
    /\ \A taskType \in TaskTypes :
          LET b == findBestDeviceForTask(deviceScores, taskType)
          IN  b # 0 => deviceScores[b].peerId # SelfId
    /\ (lastHandler = "distributeTask" /\ returned)
          => \A i \in DOMAIN sent : sent[i].to # SelfId /\ sent[i].to \in RemoteIds

\* a task went to a remote peer although the local node, in the
\* directory, suits the task better
C20_Witness ==
    /\ lastHandler = "distributeTask"
    /\ returned
    /\ Has(deviceScores, SelfId)
    /\ Has(deviceScores, sent[1].to)
    /\ sent[1].to # SelfId
    /\ C10_Suitability5(Get(deviceScores, SelfId), sent[1].taskType)
          > C10_Suitability5(Get(deviceScores, sent[1].to), sent[1].taskType)

\* C26: after initialize, a peer-list update or a latency sample has run
\* to its end, metrics.totalDevices is the number of records in the
\* directory.
C26_TotalDevicesInStep ==
    (lastHandler \in {"initialize", "peer-list", "latency-pong"} /\ ~threw)
        => metrics.totalDevices = Len(deviceScores)

\* C28: every entry of a peer list that the relay sent carries the peer's
\* capabilities, and the peer-list handler runs to its end without
\* raising an error.
C28_RelayPeerListIsScored ==
    lastHandler = "peer-list"
        => /\ \A i \in DOMAIN connectedPeers :
                  HasCapabilities(remoteCaps[connectedPeers[i]])
           /\ ~threw

C24_Winner(ds) == IF ds = <<>> THEN NoPeer ELSE C3_Expected(ds)

\* the events of the given name among evs
C24_Count(evs, name) == Cardinality({i \in DOMAIN evs : evs[i].name = name})

\* C24: master-elected and role-changed are emitted, once each, exactly
\* by an election whose winner differs from the master elected before;
\* the local role is then master if the local node is the winner, and the
\* suggestedRole of the local node's record in the directory otherwise.
C24_NotifiesOnChange ==
    [][IF "scores-updated" \in EventNames(emitted')
       THEN LET winner == C24_Winner(deviceScores')
            IN  IF winner # masterPeerId
                THEN /\ C24_Count(emitted', "master-elected") = 1
                     /\ C24_Count(emitted', "role-changed") = 1
                     /\ masterPeerId' = winner
                     /\ winner = SelfId => myRole' = "master"
                     /\ (winner # SelfId /\ Has(deviceScores', SelfId))
                           => myRole' = Get(deviceScores', SelfId).suggestedRole
                     /\ \E i \in DOMAIN emitted' :
                           /\ emitted'[i].name = "role-changed"
                           /\ emitted'[i].role = myRole'
                           /\ emitted'[i].isMaster = (winner = SelfId)
                     /\ \E i \in DOMAIN emitted' :
                           /\ emitted'[i].name = "master-elected"
                           /\ emitted'[i].peer = winner
                ELSE /\ "master-elected" \notin EventNames(emitted')
                     /\ "role-changed" \notin EventNames(emitted')
       ELSE /\ "master-elected" \notin EventNames(emitted')
            /\ "role-changed" \notin EventNames(emitted')]_vars

\* an election that gave the mastership to another peer and set the local
\* role to the suggestedRole of the local node's record
C24_Witness ==
    /\ ScoresUpdated
    /\ "master-elected" \in EventNames(emitted)
    /\ masterPeerId \in RemoteIds
    /\ Has(deviceScores, SelfId)
    /\ myRole = Get(deviceScores, SelfId).suggestedRole
    /\ \E i \in DOMAIN emitted :
          emitted[i].name = "role-changed" /\ ~emitted[i].isMaster

\* the latency C25 expects for a peer entering the directory: the last
\* sample stored for it, 50 when there is none
C25_Expected(lt, id) ==
    IF lt[id] # <<>> THEN lt[id][Len(lt[id])] ELSE 50

\* C25: a peer that a peer-list update inserts into the directory gets as
\* latency the last sample stored for its id, or 50 when there is none,
\* and the score and suggested role computed from that latency.
C25_InitialLatencyIsLast ==
    [][(lastHandler' = "peer-list" /\ ~threw')
       => \A id \in RemoteIds :
             (~Has(deviceScores, id) /\ Has(deviceScores', id))
                => LET latency == C25_Expected(latencyTests, id)
                       score   == calculateDeviceScore(remoteCaps[id], latency)
                       device  == Get(deviceScores', id)
                   IN  /\ device.latency = latency
                       /\ device.score = score
                       /\ device.suggestedRole = suggestRole(remoteCaps[id], score)]_vars

\* a fixed bound on the samples kept for one peer (the specification names
\* a window of the last 20), here one less than the pongs a run delivers
C27_Window == MaxLatencySamples - 1

\* C27: the samples kept for a peer are capped: whatever the number of
\* latency-pong messages, no peer has more than the fixed bound of
\* samples stored.
C27_SamplesCapped ==
    \A id \in RemoteIds : Len(latencyTests[id]) <= C27_Window

\* the task-result message that the step took from the wire
C21_Taken(m) ==
    /\ m \in wire.msgs
    /\ m \notin wire'.msgs
    /\ m.type = "task-result"
    /\ m.from = lastFrom'
    /\ m.taskId = lastTask'

\* C21: a task-result received for a pending task id completes the task
\* once: the id leaves the pending set, the completed map holds one entry
\* for it with the result and the sender of the message, and one
\* task-completed event with the id, the result and the sender is emitted.
C21_ResultCompletesOnce ==
    [][(/\ lastHandler' = "task-result"
        /\ \E t \in pendingTasks : t.id = lastTask')
       => \E m \in wire.msgs :
             /\ C21_Taken(m)
             /\ pendingTasks' = {t \in pendingTasks : t.id # m.taskId}
             /\ {c \in completedTasks' : c.taskId = m.taskId}
                   = {[taskId |-> m.taskId, result |-> m.result, from |-> m.from]}
             /\ {c \in completedTasks' : c.taskId # m.taskId}
                   = {c \in completedTasks : c.taskId # m.taskId}
             /\ emitted' = <<TaskEvent("task-completed", m.taskId, m.result,
                                       m.from)>>]_vars

\* the result that the assignee broadcast has completed the task
C21_Witness ==
    /\ lastHandler = "task-result"
    /\ emitted # <<>>
    /\ emitted[1].name = "task-completed"
    /\ emitted[1].result = Result(lastFrom)
    /\ [taskId |-> lastTask, peer |-> lastFrom] \in wire.assigned
    /\ [taskId |-> lastTask, result |-> Result(lastFrom), from |-> lastFrom]
          \in completedTasks
    /\ pendingTasks = {}

\* distributeTask has just sent the task id to a peer on an open channel
C22_Dispatched(id) ==
    /\ lastHandler = "distributeTask"
    /\ lastTask = id
    /\ returned
    /\ sent # <<>>
    /\ sent[1].onChannel

\* the peer the id was dispatched to has broadcast its task-result
C22_Broadcast(id) ==
    \E m \in wire.msgs :
       /\ m.type = "task-result"
       /\ m.taskId = id
       /\ [taskId |-> id, peer |-> m.from] \in wire.assigned

\* the id has moved from pending to completed
C22_Completed(id) ==
    /\ ~IsPending(id)
    /\ \E c \in completedTasks : c.taskId = id

\* C22: when a task is dispatched to a peer over an open channel, every
\* message is delivered and stop() is not called, the assignee broadcasts
\* a task-result with the same id, and the task eventually moves from
\* pending to completed.
C22_DispatchedCompletes ==
    \A id \in TaskIds :
       /\ C22_Dispatched(id) ~> C22_Broadcast(id)
       /\ C22_Dispatched(id) ~> C22_Completed(id)

\* the assignee's timer has fired and its task-result is on the way to the
\* originator, where the task is pending
C22_Witness ==
    /\ lastHandler = "remote timer"
    /\ \E id \in TaskIds :
          /\ IsPending(id)
          /\ C22_Broadcast(id)
          /\ [taskId |-> id, peer |-> lastFrom] \in wire.assigned

\* C30: only a task-result from the peer the task was dispatched to
\* completes it: a task-result for a pending id that comes from another
\* peer leaves the task pending and the completed map as it is.
C30_OnlyAssigneeCompletes ==
    [][(/\ lastHandler' = "task-result"
        /\ IsPending(lastTask')
        /\ [taskId |-> lastTask', peer |-> lastFrom'] \notin wire.assigned)
       => (/\ pendingTasks' = pendingTasks
           /\ completedTasks' = completedTasks
           /\ emitted' = <<>>)]_vars

\* a latency-ping or latency-pong between two peers with a timestamp
C23_Probe(from, to, type, timestamp) ==
    Wire(from, to, type, "-", NoResult, timestamp)

\* channel-open for a peer sends that peer one latency-ping with the
\* local clock's reading
C23_OpenSendsPing ==
    lastHandler' = "channel-open"
        => /\ Len(sent') = 1
           /\ sent'[1].to = lastFrom'
           /\ sent'[1].type = "latency-ping"
           /\ sent'[1].timestamp = wire.now
           /\ wire'.msgs = wire.msgs
                 \cup {C23_Probe(SelfId, lastFrom', "latency-ping", wire.now)}

\* a node that handles a latency-ping takes it from the wire and sends one
\* latency-pong with the same timestamp back to the sender
C23_PingEchoed ==
    lastHandler' \in {"latency-ping", "remote latency-ping"}
        => \E m \in wire.msgs :
              /\ m.type = "latency-ping"
              /\ lastFrom' = (IF m.to = SelfId THEN m.from ELSE m.to)
              /\ wire'.msgs = (wire.msgs \ {m})
                    \cup {C23_Probe(m.to, m.from, "latency-pong", m.timestamp)}
              /\ latencyTests' = latencyTests

\* the samples change only when a latency-pong is handled, by the sample
\* of that pong: the clock's reading less the timestamp it carries
C23_SampleOnPongOnly ==
    latencyTests' # latencyTests
        => /\ lastHandler' = "latency-pong"
           /\ \E m \in wire.msgs \ wire'.msgs :
                 /\ m = C23_Probe(lastFrom', SelfId, "latency-pong", m.timestamp)
                 /\ latencyTests' =
                       [latencyTests EXCEPT
                           ![lastFrom'] = Append(@, wire.now - m.timestamp)]

\* C23: probing goes ping, pong, update: a channel-open for peer P sends P
\* one latency-ping with the local send timestamp; a node that receives a
\* latency-ping replies to the sender with a latency-pong carrying the
\* same timestamp; a sample for P is recorded only when the pong is
\* received; and with every message delivered each channel-open is
\* followed by a latency sample for that peer.
C23_PingPongUpdate ==
    /\ [][C23_OpenSendsPing /\ C23_PingEchoed /\ C23_SampleOnPongOnly]_vars
    /\ \A p \in RemoteIds :
          (lastHandler = "channel-open" /\ lastFrom = p)
              ~> (latencyTests[p] # <<>>)

\* a pong has come back after the clock moved on, and its round-trip time
\* is the sample recorded
C23_Witness ==
    /\ lastHandler = "latency-pong"
    /\ latencyTests[lastFrom] # <<>>
    /\ latencyTests[lastFrom][Len(latencyTests[lastFrom])] > 0
    /\ emitted[1].latency = latencyTests[lastFrom][Len(latencyTests[lastFrom])]
    /\ Has(deviceScores, lastFrom)
    /\ Get(deviceScores, lastFrom).latency = emitted[1].latency

====
